---- MODULE Spec2Model ----
(***************************************************************************)
(* Model of src/src/inference.rs: the process-wide lazily loaded PHI       *)
(* (model, tokenizer) pair, TextGeneration::new / TextGeneration::run (the *)
(* decode loop) and answer_with_context, run by several concurrent         *)
(* invocations.                                                            *)
(*                                                                         *)
(* The tokenizer, the model forward pass, the repeat penalty, the sampler  *)
(* and the device lookup are external capabilities.  Each is modelled as   *)
(* an arbitrary but deterministic function: the first call with a given    *)
(* input chooses the outcome (a value or a failure) and records it in      *)
(* `oracle`; every later call with the same input gets the same outcome.   *)
(***************************************************************************)
EXTENDS Integers, Sequences, FiniteSets, TLC

\* ------------------------------------------------------------------ bounds
MaxSampleLen == 2       \* largest sample_len (max_new_tokens) explored
MaxRepeatLastN == 2     \* largest repeat_last_n explored

\* ------------------------------------------------------- program constants
NewlineToken == 198     \* the literal newline sentinel of the stop test
Seed == 398752958       \* the seed answer_with_context passes to new

\* the answer_with_context invocations of one process
Runs == {1, 2}

\* Token ids of the (scaled-down) vocabulary; NoToken stands for Option::None.
NoToken == 0
Tokens == {1, 2, 3, NewlineToken}

\* What load_model can put in the vocabulary under "<|endoftext|>".
EosEntries == {NoToken, 2}

\* Callers' inputs.
Queries == {"q", ""}
OneQuery == {"q"}
Snippets == { [content_chunk |-> "c1", metadata |-> "m1"],
              [content_chunk |-> "c2", metadata |-> "m2"] }
S1 == [content_chunk |-> "c1", metadata |-> "m1"]
S2 == [content_chunk |-> "c2", metadata |-> "m2"]
RefLists == { <<>>, <<S1>>, <<S1, S2>>, <<S2, S1>> }
ShortRefLists == { <<>>, <<S1>> }
Dates == {"d1", "d2"}

\* Text is a sequence of characters; " " is the whitespace character.
Fragments == { <<"a">>, <<" ">> }
NoContentMsg == <<"N", "o", "n">>

\* The handle of the model stored in PHI; a clone made by run r has handle r.
PhiHandle == 0
Handles == {PhiHandle} \cup Runs

\* ----------------------------------------------------- external capabilities
Known(memo, k) == \E e \in memo : e.key = k

\* The outcomes a deterministic capability may give for input k.
Outcomes(memo, k, choices) ==
    IF Known(memo, k) THEN { e.val : e \in { x \in memo : x.key = k } }
    ELSE choices

Learn(memo, k, v) == memo \cup { [key |-> k, val |-> v] }

Ok(v) == [ok |-> TRUE, val |-> v]
Err(v) == [ok |-> FALSE, val |-> v]

\* tokenizer.encode(prompt, true)
EncodeChoices == { Err(<<>>), Ok(<<>>), Ok(<<1>>), Ok(<<NewlineToken, 1>>) }
\* Tensor::new / model.forward / squeeze, to_dtype on one window
ForwardChoices == { "ok", "tensor", "forward", "dtype" }
\* apply_repeat_penalty
PenaltyChoices == { TRUE, FALSE }
\* logits_processor.sample
SampleChoices == { Err(NoToken) } \cup { Ok(t) : t \in Tokens }
\* tokenizer.decode(&[next_token], true)
DecodeChoices == { Err(<<>>) } \cup { Ok(f) : f \in Fragments }
\* device(false)
DeviceChoices == { TRUE, FALSE }

\* ------------------------------------------------------------ pure helpers
\* usize::saturating_sub
SaturatingSub(a, b) == IF a > b THEN a - b ELSE 0

\* &s[from..] with a 0-based start index
SliceFrom(s, from) == SubSeq(s, from + 1, Len(s))

LoopContinuesInclusive(index, sample_len) == index <= sample_len

\* the loop test of `for index in 0..sample_len`
LoopContinues(index, sample_len) == index < sample_len

ContextSizeAlwaysOne(index, len) == 1

ContextSizeAlwaysAll(index, len) == len

\* let context_size = if index > 0 { 1 } else { tokens.len() };
ContextSize(index, len) == IF index > 0 THEN 1 ELSE len

\* let ctxt = &tokens[tokens.len().saturating_sub(context_size)..];
Ctxt(index, tokens) ==
    SliceFrom(tokens, SaturatingSub(Len(tokens), ContextSize(index, Len(tokens))))

PenaltyAppliesAlways(repeat_penalty) == TRUE

\* if self.repeat_penalty == 1. { logits } else { apply_repeat_penalty(..) }
\* (repeat_penalty is kept in tenths: 10 is 1.0, 11 is 1.1)
PenaltyApplies(repeat_penalty) == repeat_penalty # 10

PenaltyContextLeading(tokens, repeat_last_n) ==
    SubSeq(tokens, 1, IF repeat_last_n < Len(tokens)
                      THEN repeat_last_n ELSE Len(tokens))

\* &tokens[start_at..] with start_at = tokens.len().saturating_sub(repeat_last_n)
PenaltyContext(tokens, repeat_last_n) ==
    SliceFrom(tokens, SaturatingSub(Len(tokens), repeat_last_n))

IsStopEosOnly(next_token, eos_token) == next_token = eos_token

\* if next_token == eos_token || next_token == 198 { break; }
IsStop(next_token, eos_token) ==
    next_token = eos_token \/ next_token = NewlineToken

IsEmptyEncodingNever(ids) == FALSE

\* tokens.is_empty()
IsEmptyEncoding(ids) == Len(ids) = 0

EosFoundAlways(entry) == TRUE

\* match get_vocab(true).get("<|endoftext|>") { Some(token) => .., None => bail }
EosFound(entry) == entry # NoToken

NoReferencesNever(references) == FALSE

\* references.is_empty()
NoReferences(references) == Len(references) = 0

FailedNever(outcome) == FALSE

\* the `?` operator on a capability's Result
Failed(outcome) == ~outcome.ok

\* str::trim
IsWhitespace(c) == c = " "

RECURSIVE TrimStart(_)
TrimStart(s) ==
    IF s # <<>> /\ IsWhitespace(Head(s)) THEN TrimStart(Tail(s)) ELSE s

RECURSIVE TrimEnd(_)
TrimEnd(s) ==
    IF s # <<>> /\ IsWhitespace(s[Len(s)])
    THEN TrimEnd(SubSeq(s, 1, Len(s) - 1)) ELSE s

TrimEndOnly(s) == TrimEnd(s)

Trim(s) == TrimEnd(TrimStart(s))

ContextReversed(references) ==
    [ i \in 1..Len(references) |->
        [content |-> references[Len(references) + 1 - i].content_chunk,
         metadata |-> references[Len(references) + 1 - i].metadata] ]

\* the JSON array of {content, metadata} objects built from the references
Context(references) ==
    [ i \in 1..Len(references) |->
        [content |-> references[i].content_chunk,
         metadata |-> references[i].metadata] ]

\* the format! of the prompt: fixed text around the date, the question and
\* the serialized context
Prompt(date, question, context) ==
    << "system", date, "question", question, "references", context >>

LogitsProcessorNewPerRun(r, seed) == [seed |-> seed + r, draws |-> 0]

\* LogitsProcessor::new(seed, temp, top_p): the sampler's random stream
LogitsProcessorNew(r, seed) == [seed |-> seed, draws |-> 0]

ModelCloneShared(r) == PhiHandle

\* model.clone(): a decode state of its own for run r
ModelClone(r) == r

\* the score vector of a forward pass is a function of everything the model's
\* decode state has been fed; the penalty rewrites it for a context
RawLogits(fed) == [fed |-> fed, penalised |-> FALSE, ctx |-> <<>>]
Penalised(logits, ctx) == [logits EXCEPT !.penalised = TRUE, !.ctx = ctx]

\* ------------------------------------------------------------------- state
VARIABLES
    cfg,      \* sample_len, repeat_penalty, repeat_last_n given to new / run
    PHI,      \* the lazy_static: its Once state, load_model calls, vocabulary
    kv,       \* decode state of every model handle: the tokens fed to it
    inv,      \* per invocation: position, inputs, TextGeneration, run locals
    obs,      \* per invocation: capability calls made so far
    oracle,   \* outcomes the capabilities have given so far
    other     \* an unrelated request on the scheduler: "ready" or "done"

vars == << cfg, PHI, kv, inv, obs, oracle, other >>

NoResult == [kind |-> "pending", text |-> <<>>, cause |-> ""]

\* an invocation not yet polled, with the arguments it will be called with
Idle(query, references) ==
    [pc |-> "idle", query |-> query, references |-> references,
     prompt |-> <<>>, model |-> PhiHandle, eos_entry |-> NoToken,
     rng |-> [seed |-> 0, draws |-> 0],
     tokens |-> <<>>, generated_tokens |-> 0, eos_token |-> NoToken,
     index |-> 0, broke |-> FALSE, response |-> <<>>, result |-> NoResult]

\* an invocation that is never made
Off == [Idle("", <<>>) EXCEPT !.pc = "off"]

\* one capability call: which one, whether it succeeded, its token argument,
\* its token result and its text result
Event(cap, ok, arg, val, text) ==
    [cap |-> cap, ok |-> ok, arg |-> arg, val |-> val, text |-> text]

InitObs == [log |-> <<>>, scores |-> <<>>]

Configs ==
    [sample_len : 0..MaxSampleLen, repeat_penalty : {10, 11},
     repeat_last_n : 0..MaxRepeatLastN]

\* what answer_with_context passes: 1.1, and (scaled down) 64 and 400
AnswerConfig ==
    [sample_len |-> MaxSampleLen, repeat_penalty |-> 11,
     repeat_last_n |-> MaxRepeatLastN]

InitShared ==
    /\ PHI = [state |-> "uninit", loads |-> 0, eos_entry |-> NoToken]
    /\ kv = [h \in Handles |-> <<>>]
    /\ obs = [r \in Runs |-> InitObs]
    /\ oracle = [device |-> {}, encode |-> {}, forward |-> {}, penalty |-> {},
                 sample |-> {}, decode |-> {}]
    /\ other = "ready"

\* the process: concurrent invocations of answer_with_context
Init ==
    /\ cfg = AnswerConfig
    /\ \E qs \in [Runs -> OneQuery], rs \in [Runs -> ShortRefLists] :
         inv = [r \in Runs |-> Idle(qs[r], rs[r])]
    /\ InitShared

\* one invocation, with any configuration of TextGeneration::new and run
InitRun ==
    /\ cfg \in Configs
    /\ \E q \in Queries, refs \in RefLists :
         inv = [r \in Runs |-> IF r = 1 THEN Idle(q, refs) ELSE Off]
    /\ InitShared

\* ----------------------------------------------------------------- actions
Logged(r, events) == [obs EXCEPT ![r].log = @ \o events]

Return(t, text) ==
    [t EXCEPT !.pc = "done",
              !.result = [kind |-> "ok", text |-> text, cause |-> ""]]

Bail(t, cause) ==
    [t EXCEPT !.pc = "done",
              !.result = [kind |-> "err", text |-> <<>>, cause |-> cause]]

Panic(t, cause) ==
    [t EXCEPT !.pc = "done",
              !.result = [kind |-> "panic", text |-> <<>>, cause |-> cause]]

\* answer_with_context up to the prompt: the empty-references return, the
\* context and the prompt
Answer(r) ==
    /\ inv[r].pc = "idle"
    /\ \E date \in Dates :
         LET called == inv[r]
             query == called.query
             references == called.references
         IN IF NoReferences(references)
            THEN /\ inv' = [inv EXCEPT ![r] =
                              Return(called, NoContentMsg)]
                 /\ obs' = obs
            ELSE /\ inv' = [inv EXCEPT ![r] =
                              [called EXCEPT
                                 !.pc = "phi",
                                 !.prompt = Prompt(date, query,
                                                   Context(references))]]
                 /\ obs' = Logged(r, << Event("assemble", TRUE, <<>>, <<>>, <<>>) >>)
    /\ UNCHANGED << cfg, PHI, kv, oracle, other >>

OnceClaimsRacy(state) == state \in {"uninit", "running"}

\* whether the Once of the lazy_static lets this access run the initializer
OnceClaims(state) == state = "uninit"

\* let (model, tokenizer) = &*PHI;  the access to the lazy_static: the first
\* one starts load_model, one made while it runs waits, later ones read PHI
DerefPHI(r) ==
    /\ inv[r].pc = "phi"
    /\ PHI.state # "running" \/ OnceClaims(PHI.state)
    /\ IF OnceClaims(PHI.state)
       THEN /\ PHI' = [PHI EXCEPT !.state = "running", !.loads = @ + 1]
            /\ inv' = [inv EXCEPT ![r].pc = "loading"]
       ELSE IF PHI.state = "poisoned"
       THEN /\ PHI' = PHI
            /\ inv' = [inv EXCEPT ![r] = Panic(inv[r], "poisoned")]
       ELSE /\ PHI' = PHI
            /\ inv' = [inv EXCEPT ![r].pc = "new"]
    /\ obs' = Logged(r, << Event("phi", TRUE, <<>>, <<>>, <<>>) >>)
    /\ UNCHANGED << cfg, kv, oracle, other >>

\* load_model(Model::Phi2).expect("Unable to load model") inside the Once
LoadModel(r) ==
    /\ inv[r].pc = "loading"
    /\ \/ \E entry \in EosEntries :
            /\ PHI' = [PHI EXCEPT !.state = "ready", !.eos_entry = entry]
            /\ inv' = [inv EXCEPT ![r].pc = "new"]
       \/ /\ PHI' = [PHI EXCEPT !.state = "poisoned"]
          /\ inv' = [inv EXCEPT ![r] = Panic(inv[r], "load_model")]
    /\ UNCHANGED << cfg, kv, obs, oracle, other >>

\* model.clone(), tokenizer.clone(), device(false)? and TextGeneration::new
New(r) ==
    /\ inv[r].pc = "new"
    /\ \E dev \in Outcomes(oracle.device, "device", DeviceChoices) :
         /\ oracle' = [oracle EXCEPT !.device = Learn(@, "device", dev)]
         /\ obs' = Logged(r, << Event("device", dev, <<>>, <<>>, <<>>) >>)
         /\ IF ~dev
            THEN /\ inv' = [inv EXCEPT ![r] = Bail(inv[r], "device")]
                 /\ kv' = kv
            ELSE /\ inv' = [inv EXCEPT ![r].pc = "run",
                                       ![r].model = ModelClone(r),
                                       ![r].eos_entry = PHI.eos_entry,
                                       ![r].rng = LogitsProcessorNew(r, Seed)]
                 /\ kv' = [kv EXCEPT ![ModelClone(r)] = kv[PhiHandle]]
    /\ UNCHANGED << cfg, PHI, other >>

\* run up to the loop: encode, the empty-prompt bail, the end-of-text lookup
RunBegin(r) ==
    /\ inv[r].pc = "run"
    /\ \E enc \in Outcomes(oracle.encode, inv[r].prompt, EncodeChoices) :
         LET t == inv[r]
             encoded == Event("encode", enc.ok, <<>>, enc.val, <<>>)
             lookup == Event("get_vocab", TRUE, <<>>, <<>>, <<>>)
         IN /\ oracle' = [oracle EXCEPT
                            !.encode = Learn(@, inv[r].prompt, enc)]
            /\ IF Failed(enc)
               THEN /\ inv' = [inv EXCEPT ![r] = Bail(t, "encode")]
                    /\ obs' = Logged(r, << encoded >>)
               ELSE IF IsEmptyEncoding(enc.val)
               THEN /\ inv' = [inv EXCEPT ![r] = Bail(t, "EmptyPrompt")]
                    /\ obs' = Logged(r, << encoded >>)
               ELSE IF ~EosFound(t.eos_entry)
               THEN /\ inv' = [inv EXCEPT ![r] =
                                 Bail([t EXCEPT !.tokens = enc.val],
                                      "MissingStopToken")]
                    /\ obs' = Logged(r, << encoded, lookup >>)
               ELSE /\ inv' = [inv EXCEPT ![r] =
                                 [t EXCEPT !.pc = "loop",
                                           !.tokens = enc.val,
                                           !.generated_tokens = 0,
                                           !.eos_token = t.eos_entry,
                                           !.response = <<>>]]
                    /\ obs' = Logged(r, << encoded, lookup >>)
    /\ UNCHANGED << cfg, PHI, kv, other >>

\* One loop iteration is a chain of stages over a record of the run's locals
\* (t), the decode state of its model (fed), the calls made (events), the
\* scores given to the sampler (scores) and whether the iteration is still
\* running (live).
Stop(s, cause) == [s EXCEPT !.live = FALSE, !.t = Bail(s.t, cause)]

StageResult(failing, stage) == [ok |-> failing # stage, val |-> <<>>]

\* Tensor::new(ctxt)?.unsqueeze(0)?, model.forward(&input)?,
\* logits.squeeze(0)?.to_dtype(DType::F32)?
ForwardStage(s, fo) ==
    LET ctxt == Ctxt(s.t.index, s.t.tokens)
        tensor == Event("tensor", fo # "tensor", ctxt, <<>>, <<>>)
        forward == Event("forward", fo # "forward", ctxt, <<>>, <<>>)
        dtype == Event("dtype", fo # "dtype", <<>>, <<>>, <<>>)
    IN IF Failed(StageResult(fo, "tensor"))
       THEN Stop([s EXCEPT !.events = @ \o << tensor >>], "tensor")
       ELSE IF Failed(StageResult(fo, "forward"))
       THEN Stop([s EXCEPT !.events = @ \o << tensor, forward >>], "forward")
       ELSE IF Failed(StageResult(fo, "dtype"))
       THEN Stop([s EXCEPT !.events = @ \o << tensor, forward, dtype >>,
                           !.fed = @ \o ctxt], "dtype")
       ELSE [s EXCEPT !.events = @ \o << tensor, forward, dtype >>,
                      !.fed = @ \o ctxt,
                      !.logits = RawLogits(s.fed \o ctxt)]

\* the repeat penalty, applied unless repeat_penalty is 1.0
PenaltyStage(s, c, po) ==
    LET ctx == PenaltyContext(s.t.tokens, c.repeat_last_n)
        penalty == Event("penalty", po, ctx, <<>>, <<>>)
    IN IF ~s.live \/ ~PenaltyApplies(c.repeat_penalty) THEN s
       ELSE IF Failed([ok |-> po, val |-> <<>>])
       THEN Stop([s EXCEPT !.events = @ \o << penalty >>], "penalty")
       ELSE [s EXCEPT !.events = @ \o << penalty >>,
                      !.logits = Penalised(s.logits, ctx)]

\* the sampler's input: the scores and the state of its random stream
SampleKey(s) == [scores |-> s.logits, rng |-> s.t.rng]

PushDroppingOldest(tokens, next_token) == Append(Tail(tokens), next_token)

\* tokens.push(next_token)
Push(tokens, next_token) == Append(tokens, next_token)

\* sample, push, count, and the stop test
SampleStage(s, so) ==
    LET sample == Event("sample", so.ok, <<>>,
                        IF so.ok THEN << so.val >> ELSE <<>>, <<>>)
        drawn == [s EXCEPT !.events = @ \o << sample >>,
                           !.scores = @ \o << s.logits >>]
    IN IF ~s.live THEN s
       ELSE IF Failed(so) THEN Stop(drawn, "sample")
       ELSE [drawn EXCEPT
               !.t = [@ EXCEPT !.rng.draws = @ + 1,
                               !.tokens = Push(@, so.val),
                               !.generated_tokens = @ + 1,
                               !.broke = IsStop(so.val, s.t.eos_token)],
               !.next_token = so.val]

NextIndexSkips(index) == index + 2

\* the next value of `for index in 0..sample_len`
NextIndex(index) == index + 1

AppendFragmentOverwrites(response, fragment) == fragment

\* response += &token
AppendFragment(response, fragment) == response \o fragment

\* decode of the token alone, appended to the response; the next index
DecodeStage(s, do) ==
    LET decode == Event("decode", do.ok, << s.next_token >>, <<>>, do.val)
    IN IF ~s.live \/ s.t.broke THEN s
       ELSE IF Failed(do)
       THEN Stop([s EXCEPT !.events = @ \o << decode >>], "decode")
       ELSE [s EXCEPT !.events = @ \o << decode >>,
                      !.t = [@ EXCEPT !.response = AppendFragment(@, do.val),
                                      !.index = NextIndex(@)]]

\* one iteration of `for index in 0..sample_len`
Step(r) ==
    /\ inv[r].pc = "loop"
    /\ ~inv[r].broke
    /\ LoopContinues(inv[r].index, cfg.sample_len)
    /\ LET t == inv[r]
           h == t.model
           s0 == [t |-> t, fed |-> kv[h], events |-> <<>>, scores |-> <<>>,
                  logits |-> RawLogits(<<>>), next_token |-> NoToken,
                  live |-> TRUE]
           fkey == kv[h] \o Ctxt(t.index, t.tokens)
       IN \E fo \in Outcomes(oracle.forward, fkey, ForwardChoices) :
          LET s1 == ForwardStage(s0, fo)
              penalises == s1.live /\ PenaltyApplies(cfg.repeat_penalty)
              pkey == [logits |-> s1.logits,
                       ctx |-> PenaltyContext(t.tokens, cfg.repeat_last_n)]
          IN \E po \in IF penalises
                       THEN Outcomes(oracle.penalty, pkey, PenaltyChoices)
                       ELSE {TRUE} :
             LET s2 == PenaltyStage(s1, cfg, po)
                 skey == SampleKey(s2)
             IN \E so \in IF s2.live
                          THEN Outcomes(oracle.sample, skey, SampleChoices)
                          ELSE {Err(NoToken)} :
                LET s3 == SampleStage(s2, so)
                    decodes == s3.live /\ ~s3.t.broke
                IN \E do \in IF decodes
                             THEN Outcomes(oracle.decode, s3.next_token,
                                           DecodeChoices)
                             ELSE {Err(<<>>)} :
                   LET s4 == DecodeStage(s3, do)
                   IN /\ inv' = [inv EXCEPT ![r] = s4.t]
                      /\ kv' = [kv EXCEPT ![h] = s4.fed]
                      /\ obs' = [obs EXCEPT ![r].log = @ \o s4.events,
                                            ![r].scores = @ \o s4.scores]
                      /\ oracle' =
                           [oracle EXCEPT
                              !.forward = Learn(@, fkey, fo),
                              !.penalty = IF penalises
                                          THEN Learn(@, pkey, po) ELSE @,
                              !.sample = IF s2.live
                                         THEN Learn(@, skey, so) ELSE @,
                              !.decode = IF decodes
                                         THEN Learn(@, s3.next_token, do)
                                         ELSE @]
    /\ UNCHANGED << cfg, PHI, other >>

\* after the loop: Ok(response.trim().to_string()), returned by
\* answer_with_context
Finish(r) ==
    /\ inv[r].pc = "loop"
    /\ inv[r].broke \/ ~LoopContinues(inv[r].index, cfg.sample_len)
    /\ inv' = [inv EXCEPT ![r] = Return(inv[r], Trim(inv[r].response))]
    /\ UNCHANGED << cfg, PHI, kv, obs, oracle, other >>

\* the scheduler thread that polls the future of invocation r
PollingThread(r) == r

\* the thread that executes the body of invocation r, pipeline.run included:
\* the async fn has no .await and spawns nothing, so it is the polling thread
RunThread(r) == PollingThread(r)

\* the body of invocation r is being executed
InPoll(r) == inv[r].pc \notin {"idle", "off", "done"}

Busy(thread) == \E r \in Runs : RunThread(r) = thread /\ InPoll(r)

\* the scheduler thread the unrelated request is queued on
OtherThread == PollingThread(1)

\* the scheduler polls the unrelated request when its thread is not inside
\* another poll
PollOther ==
    /\ other = "ready"
    /\ ~Busy(OtherThread)
    /\ other' = "done"
    /\ UNCHANGED << cfg, PHI, kv, inv, obs, oracle >>

\* a step of one of the invocations
Answers ==
    \E r \in Runs :
        \/ Answer(r)
        \/ DerefPHI(r)
        \/ LoadModel(r)
        \/ New(r)
        \/ RunBegin(r)
        \/ Step(r)
        \/ Finish(r)

Next == Answers \/ PollOther

\* the invocations alone, each polled on a scheduler thread of its own
Spec == Init /\ [][Answers]_vars

\* one invocation, on a scheduler thread that has another request ready
SpecRun == InitRun /\ [][Next]_vars

\* ------------------------------------------------------------ observations
\* the calls of one capability an invocation has made, in order
CallsOf(r, cap) == SelectSeq(obs[r].log, LAMBDA e : e.cap = cap)

Calls(r, cap) == Len(CallsOf(r, cap))

\* the windows submitted to the model, in order
Windows(r) == [k \in 1..Calls(r, "forward") |-> CallsOf(r, "forward")[k].arg]

\* the tokens the sampler returned, in order
Sampled(r) ==
    LET ok == SelectSeq(obs[r].log, LAMBDA e : e.cap = "sample" /\ e.ok)
    IN [k \in 1..Len(ok) |-> ok[k].val[1]]

\* the tokens passed to decode, in order
Decoded(r) == [k \in 1..Calls(r, "decode") |-> CallsOf(r, "decode")[k].arg[1]]

\* the encoding of the prompt, once encode has returned one
PromptTokens(r) ==
    LET ok == SelectSeq(obs[r].log, LAMBDA e : e.cap = "encode" /\ e.ok)
    IN IF ok = <<>> THEN <<>> ELSE ok[1].val

Done(r) == inv[r].pc = "done"

\* a stop id of run r: the resolved end-of-text id or the newline sentinel
StopId(r, token) == token = inv[r].eos_token \/ token = 198

\* ------------------------------------------------------------------ claims
\* C1: a run samples and appends at most max_new_tokens tokens: the
\* generated-token counter, the number of forward calls, the number of sample
\* calls and the growth of the token sequence never exceed sample_len.
C1_AtMostMaxNewTokens ==
    \A r \in Runs :
        /\ inv[r].generated_tokens <= cfg.sample_len
        /\ Calls(r, "forward") <= cfg.sample_len
        /\ Calls(r, "sample") <= cfg.sample_len
        /\ Len(inv[r].tokens) <= Len(PromptTokens(r)) + cfg.sample_len

C1_Witness ==
    \E r \in Runs :
        /\ Done(r) /\ inv[r].result.kind = "ok"
        /\ cfg.sample_len = MaxSampleLen
        /\ inv[r].generated_tokens = cfg.sample_len
        /\ Calls(r, "forward") = cfg.sample_len
        /\ ~inv[r].broke

\* C2: a sampled stop id (end-of-text or 198) ends the loop at that step: it
\* is the last capability call of the run and is never passed to decode; when
\* the first sampled token is a stop id the loop ran one step, the generated
\* count is 1 and the run returns the empty text.
C2_StopTerminates ==
    \A r \in Runs :
        /\ \A i \in DOMAIN obs[r].log :
             LET e == obs[r].log[i]
             IN (e.cap = "sample" /\ e.ok /\ StopId(r, e.val[1]))
                    => i = Len(obs[r].log)
        /\ \A k \in DOMAIN Decoded(r) : ~StopId(r, Decoded(r)[k])
        /\ (Sampled(r) # <<>> /\ StopId(r, Sampled(r)[1]))
               => /\ Calls(r, "forward") = 1
                  /\ Calls(r, "sample") = 1
                  /\ Calls(r, "decode") = 0
                  /\ inv[r].generated_tokens = 1
                  /\ inv[r].index = 0
                  /\ Done(r) => inv[r].result =
                                  [kind |-> "ok", text |-> <<>>, cause |-> ""]

C2_Witness ==
    \E r \in Runs :
        /\ Done(r)
        /\ Sampled(r) = << 198 >>
        /\ inv[r].eos_token # 198
        /\ inv[r].generated_tokens = 1
        /\ inv[r].result.kind = "ok" /\ inv[r].result.text = <<>>

\* C3: answer with an empty snippet list returns the fixed message and makes
\* no capability call, builds no prompt and does not touch PHI, for every
\* query.
C3_EmptySnippetsShortCircuit ==
    /\ \A r \in Runs :
         Len(inv[r].references) = 0
            => /\ obs[r].log = <<>>
               /\ inv[r].prompt = <<>>
               /\ inv[r].pc \in {"idle", "off", "done"}
               /\ Done(r) => inv[r].result =
                               [kind |-> "ok", text |-> NoContentMsg,
                                cause |-> ""]
    /\ (\A r \in Runs : Len(inv[r].references) = 0)
           => PHI.state = "uninit" /\ PHI.loads = 0

C3_Witness ==
    \E r \in Runs :
        /\ Done(r)
        /\ inv[r].references = <<>>
        /\ inv[r].query = "q"
        /\ inv[r].result.text = NoContentMsg
        /\ PHI.state = "uninit"

\* C4: the window of the first step (index 0) is the entire token sequence,
\* the window of every later step is the single most recently appended token;
\* no window is empty.
C4_WindowSelection ==
    \A r \in Runs :
        \A k \in DOMAIN Windows(r) :
            /\ Windows(r)[k] # <<>>
            /\ k = 1 => Windows(r)[k] = PromptTokens(r)
            /\ k > 1 => /\ k - 1 \in DOMAIN Sampled(r)
                        /\ Windows(r)[k] = << Sampled(r)[k - 1] >>

C4_Witness ==
    \E r \in Runs :
        /\ Calls(r, "forward") = 2
        /\ Len(Windows(r)[1]) = 2
        /\ Windows(r)[1] = SubSeq(inv[r].tokens, 1, 2)
        /\ Len(Windows(r)[2]) = 1

\* run has been entered and its tokenizer's vocabulary has no end-of-text
\* entry
RunWithoutEos(r) == Calls(r, "encode") > 0 /\ inv[r].eos_entry = NoToken

NoDecodeStep(r) ==
    /\ Calls(r, "tensor") = 0
    /\ Calls(r, "forward") = 0
    /\ Calls(r, "sample") = 0
    /\ Calls(r, "decode") = 0
    /\ inv[r].generated_tokens = 0

\* C5 as stated: whenever the vocabulary has no end-of-text entry, run fails
\* with MissingStopToken before any decode step (read for the runs whose
\* encode call returned an encoding).
C5_AsStated ==
    \A r \in Runs :
        (RunWithoutEos(r) /\ Done(r) /\ CallsOf(r, "encode")[1].ok)
            => /\ inv[r].result.kind = "err"
               /\ inv[r].result.cause = "MissingStopToken"
               /\ NoDecodeStep(r)

\* C5 (amended): whenever the vocabulary has no end-of-text entry, run fails
\* before any decode step (no forward, sample or decode call, no response
\* text); the error is MissingStopToken when the prompt was encoded to at
\* least one token, and the encode failure or EmptyPrompt otherwise.
C5_MissingStopToken ==
    \A r \in Runs :
        RunWithoutEos(r)
            => /\ NoDecodeStep(r)
               /\ Done(r)
               /\ inv[r].result.kind = "err"
               /\ inv[r].result.text = <<>>
               /\ PromptTokens(r) # <<>>
                    => inv[r].result.cause = "MissingStopToken"
               /\ PromptTokens(r) = <<>>
                    => inv[r].result.cause \in {"encode", "EmptyPrompt"}

C5_Witness ==
    \E r \in Runs :
        /\ RunWithoutEos(r)
        /\ PromptTokens(r) # <<>>
        /\ Done(r)
        /\ inv[r].result.cause = "MissingStopToken"
        /\ Calls(r, "get_vocab") = 1
        /\ Calls(r, "forward") = 0

\* encode returned an encoding of zero tokens
EncodedEmpty(r) ==
    \E i \in DOMAIN obs[r].log :
        /\ obs[r].log[i].cap = "encode"
        /\ obs[r].log[i].ok
        /\ obs[r].log[i].val = <<>>

\* C6: a prompt encoded to zero tokens makes run fail with EmptyPrompt
\* without any use of the model; the token sequence is never empty when the
\* decode loop begins.
C6_EmptyPrompt ==
    \A r \in Runs :
        /\ EncodedEmpty(r)
              => /\ Done(r)
                 /\ inv[r].result =
                      [kind |-> "err", text |-> <<>>, cause |-> "EmptyPrompt"]
                 /\ NoDecodeStep(r)
        /\ inv[r].pc = "loop" => inv[r].tokens # <<>>
        /\ Calls(r, "tensor") > 0 => PromptTokens(r) # <<>>

C6_Witness ==
    \E r \in Runs :
        /\ EncodedEmpty(r)
        /\ Done(r)
        /\ inv[r].result.cause = "EmptyPrompt"
        /\ inv[r].eos_entry # NoToken

\* C7: a capability call that fails is the last call of the run (no further
\* call, no retry), and the run has ended with an error that carries the
\* failed call as its cause and no response text, also when fragments had
\* been accumulated.
C7_FailureAborts ==
    \A r \in Runs :
        \A i \in DOMAIN obs[r].log :
            ~obs[r].log[i].ok
                => /\ i = Len(obs[r].log)
                   /\ Done(r)
                   /\ inv[r].result =
                        [kind |-> "err", text |-> <<>>,
                         cause |-> obs[r].log[i].cap]

C7_Witness ==
    \E r \in Runs :
        /\ Done(r)
        /\ inv[r].result.kind = "err"
        /\ inv[r].result.cause = "forward"
        /\ inv[r].response # <<>>
        /\ inv[r].result.text = <<>>
        /\ Calls(r, "forward") = 2

RECURSIVE Flatten(_)
Flatten(ss) == IF ss = <<>> THEN <<>> ELSE Head(ss) \o Flatten(Tail(ss))

\* what run r has fed to a model: the windows of its successful forward calls
Fed(r) ==
    LET ok == SelectSeq(obs[r].log, LAMBDA e : e.cap = "forward" /\ e.ok)
    IN Flatten([k \in 1..Len(ok) |-> ok[k].arg])

\* r has built its TextGeneration
Built(r) == \E i \in DOMAIN obs[r].log :
                obs[r].log[i].cap = "device" /\ obs[r].log[i].ok

\* C8: under any interleaving of invocations, the decode state of the shared
\* model in PHI is never advanced, every run owns a decode state that no
\* other run uses and that holds exactly the windows this run has fed, and
\* the scores of every step are those of a model fed this run's tokens only.
C8_RunIsolation ==
    /\ kv[PhiHandle] = <<>>
    /\ \A r \in Runs :
         Built(r)
            => /\ inv[r].model # PhiHandle
               /\ \A o \in Runs \ {r} : Built(o) => inv[o].model # inv[r].model
               /\ kv[inv[r].model] = Fed(r)
    /\ \A r \in Runs :
         \A k \in DOMAIN obs[r].scores :
            obs[r].scores[k].fed
                = PromptTokens(r) \o SubSeq(Sampled(r), 1, k - 1)

C8_Witness ==
    /\ inv[1].pc = "loop" /\ inv[2].pc = "loop"
    /\ Calls(1, "forward") = 1 /\ Calls(2, "forward") = 1
    /\ kv[inv[1].model] # <<>> /\ kv[inv[2].model] # <<>>
    /\ kv[PhiHandle] = <<>>

\* C9: PHI is untouched until an invocation with references dereferences it,
\* load_model runs at most once in the process, also when invocations race
\* on the first access, and every TextGeneration is built from the one loaded
\* pair.
C9_LoadOnce ==
    /\ PHI.loads <= 1
    /\ PHI.state = "uninit" <=> \A r \in Runs : Calls(r, "phi") = 0
    /\ PHI.state = "uninit" <=> PHI.loads = 0
    /\ \A r \in Runs : Calls(r, "phi") <= 1
    /\ \A r \in Runs :
         Built(r) => PHI.state = "ready" /\ inv[r].eos_entry = PHI.eos_entry

C9_Witness ==
    \E r \in Runs, o \in Runs :
        /\ r # o
        /\ Built(r) /\ Built(o)
        /\ Calls(r, "phi") = 1 /\ Calls(o, "phi") = 1
        /\ PHI.loads = 1

C9_RaceWitness ==
    \E r \in Runs, o \in Runs :
        /\ inv[r].pc = "loading"
        /\ inv[o].pc = "phi"
        /\ PHI.loads = 1

\* C10: two invocations with the same query, the same references and the
\* same date build the same prompt, start from the same seed, sample the
\* same token from the same scores at every step, and end with the same
\* result after the same number of steps.
C10_Deterministic ==
    \A r \in Runs, o \in Runs :
        ( /\ inv[r].query = inv[o].query
          /\ inv[r].references = inv[o].references
          /\ inv[r].prompt = inv[o].prompt
          /\ Len(inv[r].references) = 0 \/ (Built(r) /\ Built(o)) )
            => /\ inv[r].rng.seed = inv[o].rng.seed
               /\ \A k \in DOMAIN Sampled(r) \cap DOMAIN Sampled(o) :
                    Sampled(r)[k] = Sampled(o)[k]
               /\ \A k \in DOMAIN obs[r].scores \cap DOMAIN obs[o].scores :
                    obs[r].scores[k] = obs[o].scores[k]
               /\ \A k \in DOMAIN Windows(r) \cap DOMAIN Windows(o) :
                    Windows(r)[k] = Windows(o)[k]
               /\ (Done(r) /\ Done(o))
                    => /\ inv[r].result = inv[o].result
                       /\ inv[r].generated_tokens = inv[o].generated_tokens
                       /\ obs[r].log = obs[o].log

C10_Witness ==
    /\ inv[1].prompt = inv[2].prompt
    /\ Done(1) /\ Done(2)
    /\ inv[1].result.kind = "ok" /\ inv[1].result.text # <<>>
    /\ inv[1].result = inv[2].result
    /\ inv[1].generated_tokens = 2 /\ inv[2].generated_tokens = 2
    /\ Sampled(1) = Sampled(2)

\* the token sequence of run r when its k-th step began: the prompt and the
\* tokens sampled by the steps before it
TokensAtStep(r, k) == PromptTokens(r) \o SubSeq(Sampled(r), 1, k - 1)

\* C11: with repeat_penalty 1.0 the scores given to the sampler at every step
\* are the scores the model returned for that step, and the repeat penalty is
\* never called.
C11_NoPenaltyPassThrough ==
    cfg.repeat_penalty = 10
        => \A r \in Runs :
              /\ Calls(r, "penalty") = 0
              /\ \A k \in DOMAIN obs[r].scores :
                    /\ ~obs[r].scores[k].penalised
                    /\ obs[r].scores[k] =
                         [fed |-> TokensAtStep(r, k), penalised |-> FALSE,
                          ctx |-> <<>>]

C11_Witness ==
    \E r \in Runs :
        /\ cfg.repeat_penalty = 10
        /\ cfg.repeat_last_n > 0
        /\ Len(obs[r].scores) = 2
        /\ Calls(r, "sample") = 2
        /\ Calls(r, "forward") = 2

\* the last m elements of s
Trailing(s, m) == [i \in 1..m |-> s[Len(s) - m + i]]

Smaller(a, b) == IF a < b THEN a ELSE b

\* C12: with repeat_penalty other than 1.0, the k-th penalty call gets the
\* trailing min(repeat_last_n, len(tokens)) tokens of the sequence as it is
\* before the k-th token is sampled (prompt tokens included), every sample
\* call directly follows a successful penalty call, and the scores sampled
\* from are the penalised ones.
C12_PenaltyWindow ==
    cfg.repeat_penalty # 10
        => \A r \in Runs :
              /\ \A k \in DOMAIN CallsOf(r, "penalty") :
                    CallsOf(r, "penalty")[k].arg =
                        Trailing(TokensAtStep(r, k),
                                 Smaller(cfg.repeat_last_n,
                                         Len(TokensAtStep(r, k))))
              /\ \A i \in DOMAIN obs[r].log :
                    obs[r].log[i].cap = "sample"
                        => /\ i > 1
                           /\ obs[r].log[i - 1].cap = "penalty"
                           /\ obs[r].log[i - 1].ok
              /\ \A k \in DOMAIN obs[r].scores :
                    /\ obs[r].scores[k].penalised
                    /\ obs[r].scores[k].ctx = CallsOf(r, "penalty")[k].arg

C12_Witness ==
    \E r \in Runs :
        /\ cfg.repeat_penalty # 10
        /\ cfg.repeat_last_n = 2
        /\ Len(PromptTokens(r)) = 2
        /\ Calls(r, "penalty") = 2
        /\ Calls(r, "sample") = 2
        /\ CallsOf(r, "penalty")[1].arg = PromptTokens(r)
        /\ CallsOf(r, "penalty")[2].arg =
             << PromptTokens(r)[2], Sampled(r)[1] >>

\* C13: a text returned by run neither begins nor ends with a whitespace
\* character, whether the loop ended by a stop token, by exhausting
\* sample_len or without an iteration.
C13_Trimmed ==
    \A r \in Runs :
        (Done(r) /\ inv[r].result.kind = "ok" /\ inv[r].result.text # <<>>)
            => /\ inv[r].result.text[1] # " "
               /\ inv[r].result.text[Len(inv[r].result.text)] # " "

C13_Witness ==
    \E r \in Runs :
        /\ Done(r) /\ inv[r].result.kind = "ok"
        /\ inv[r].response = << " ", "a" >>
        /\ inv[r].result.text = << "a" >>

C13_WitnessStopped ==
    \E r \in Runs :
        /\ Done(r) /\ inv[r].result.kind = "ok"
        /\ inv[r].broke
        /\ inv[r].response = << " " >>
        /\ inv[r].result.text = <<>>

\* C14 as stated: the decode loop of an invocation runs on a dedicated
\* worker, not on the scheduler thread that polls the invocation, so while a
\* decode loop runs a ready request on that scheduler thread can be polled.
C14_AsStated ==
    \A r \in Runs :
        inv[r].pc = "loop"
            => /\ RunThread(r) # PollingThread(r)
               /\ (other = "ready" /\ PollingThread(r) = OtherThread)
                      => ENABLED PollOther

\* C15 as stated: a request with an empty query and at least one snippet
\* fails with EmptyQuery before any model interaction: the model is not
\* accessed or constructed, the tokenizer and the model are not called.
C15_AsStated ==
    \A r \in Runs :
        (inv[r].query = "" /\ Len(inv[r].references) > 0)
            => /\ Calls(r, "phi") = 0
               /\ Calls(r, "device") = 0
               /\ Calls(r, "encode") = 0
               /\ Calls(r, "forward") = 0
               /\ Done(r) => /\ inv[r].result.kind = "err"
                             /\ inv[r].result.cause = "EmptyQuery"

\* the text fragments the decode calls of r returned, in order
DecodedFragments(r) ==
    LET ok == SelectSeq(obs[r].log, LAMBDA e : e.cap = "decode" /\ e.ok)
    IN [k \in 1..Len(ok) |-> ok[k].text]

\* the sampled tokens of r that are not stop ids, in order
SampledNonStop(r) == SelectSeq(Sampled(r), LAMBDA token : ~StopId(r, token))

\* C16: the response buffer is the concatenation, in sampling order, of the
\* fragments decoded from the sampled non-stop tokens, each passed to decode
\* alone and once, and the text a run returns is that buffer trimmed; no
\* prompt token is decoded.
C16_ResponseFromSampled ==
    \A r \in Runs :
        /\ Decoded(r) = SampledNonStop(r)
        /\ \A k \in 1..Calls(r, "decode") :
               Len(CallsOf(r, "decode")[k].arg) = 1
        /\ inv[r].response = Flatten(DecodedFragments(r))
        /\ (Done(r) /\ inv[r].result.kind = "ok" /\ Built(r))
               => inv[r].result.text = Trim(Flatten(DecodedFragments(r)))

C16_Witness ==
    \E r \in Runs :
        /\ Done(r) /\ inv[r].result.kind = "ok"
        /\ Len(PromptTokens(r)) = 2
        /\ Sampled(r) = << 3, 1 >>
        /\ Len(DecodedFragments(r)) = 2
        /\ DecodedFragments(r)[1] # DecodedFragments(r)[2]
        /\ inv[r].result.text = Trim(DecodedFragments(r)[1]
                                        \o DecodedFragments(r)[2])


\* what one step of the program may do to the token sequence of run r
AppendOnlyStep(r) ==
    LET tokens == inv[r].tokens
        after == inv'[r].tokens
    IN /\ Len(after) \in {Len(tokens), Len(tokens) + 1}
       /\ SubSeq(after, 1, Len(tokens)) = tokens
       /\ inv'[r].index = inv[r].index + 1 => Len(after) = Len(tokens) + 1
       /\ (inv'[r].broke /\ ~inv[r].broke) => Len(after) = Len(tokens) + 1
       /\ Len(after) = Len(tokens) + 1
              => /\ after[Len(after)] = Sampled(r)'[Len(Sampled(r)')]
                 /\ Len(Sampled(r)') = Len(Sampled(r)) + 1

\* C17: once the loop of a run has begun its token sequence is append-only:
\* a step leaves it as it is or appends one token, every element keeps its
\* value and position, a step that goes on to the next iteration (or ends in
\* a stop token) has appended exactly the token it sampled, and the sequence
\* is always the encoded prompt followed by the sampled tokens.
C17_AppendOnly ==
    /\ [](\A r \in Runs :
             (inv[r].pc = "loop" \/ Calls(r, "forward") > 0)
                 => inv[r].tokens = PromptTokens(r) \o Sampled(r))
    /\ [][\A r \in Runs : inv[r].pc = "loop" => AppendOnlyStep(r)]_vars

C17_Witness ==
    \E r \in Runs :
        /\ Done(r)
        /\ Len(PromptTokens(r)) = 2
        /\ Len(Sampled(r)) = 2
        /\ inv[r].tokens = PromptTokens(r) \o Sampled(r)
        /\ inv[r].index = 1 /\ inv[r].broke

\* run r has sampled a stop id
SampledStop(r) == \E k \in DOMAIN Sampled(r) : StopId(r, Sampled(r)[k])

\* an upper bound of the steps run r has left: the iterations of the loop
\* not yet made, the return, and the steps before the loop
StepsLeft(r) ==
    CASE inv[r].pc = "run" -> cfg.sample_len + 3
      [] inv[r].pc = "loop" /\ ~inv[r].broke
            -> (cfg.sample_len - inv[r].index) + 2
      [] inv[r].pc = "loop" /\ inv[r].broke -> 1
      [] OTHER -> 0

InRun(r) == inv[r].pc \in {"run", "loop"}

\* C18: a run that was called ends, with a result or an error, after at
\* most sample_len decode steps when the calls it makes return: until it has
\* ended it always has a step to take, and every step it takes lowers a
\* bound of the steps left that starts at sample_len + 3 and is never
\* negative. A run that returns a text has either sampled a stop id or made
\* exactly sample_len steps, none of which sampled a stop id: the loop has no
\* other exit.
C18_Terminates ==
    /\ [](\A r \in Runs :
             /\ StepsLeft(r) >= 0
             /\ InRun(r) => ENABLED (RunBegin(r) \/ Step(r) \/ Finish(r))
             /\ Calls(r, "forward") <= cfg.sample_len
             /\ (Done(r) /\ inv[r].result.kind = "ok" /\ Built(r))
                    => \/ inv[r].broke /\ SampledStop(r)
                       \/ /\ ~inv[r].broke /\ ~SampledStop(r)
                          /\ Calls(r, "forward") = cfg.sample_len
                          /\ Len(Sampled(r)) = cfg.sample_len
             /\ (Done(r) /\ inv[r].result.kind # "ok")
                    => ~inv[r].broke)
    /\ [][\A r \in Runs :
             (InRun(r) /\ inv'[r] # inv[r]) => StepsLeft(r)' < StepsLeft(r)]_vars

C18_Witness ==
    \E r \in Runs :
        /\ Done(r) /\ inv[r].result.kind = "ok"
        /\ cfg.sample_len > 1
        /\ Len(Sampled(r)) = cfg.sample_len
        /\ ~SampledStop(r)
        /\ inv[r].index = cfg.sample_len

\* the references part of the prompt invocation r has built
PromptContext(r) == inv[r].prompt[6]

\* C19: for a non-empty snippet list the prompt holds one {content,
\* metadata} record per snippet, the i-th record made of the i-th snippet of
\* the caller's list: none dropped, duplicated or moved; this prompt is the
\* one the tokenizer is given.
C19_SnippetOrder ==
    \A r \in Runs :
        (Len(inv[r].references) > 0 /\ inv[r].pc \notin {"idle", "off"})
            => /\ Len(PromptContext(r)) = Len(inv[r].references)
               /\ \A i \in 1..Len(inv[r].references) :
                     /\ PromptContext(r)[i].content =
                            inv[r].references[i].content_chunk
                     /\ PromptContext(r)[i].metadata =
                            inv[r].references[i].metadata
               /\ inv[r].prompt[4] = inv[r].query
               /\ Calls(r, "encode") > 0
                      => Known(oracle.encode, inv[r].prompt)

C19_Witness ==
    \E r \in Runs :
        /\ inv[r].references = << S2, S1 >>
        /\ Calls(r, "encode") = 1
        /\ PromptContext(r) = << [content |-> "c2", metadata |-> "m2"],
                                 [content |-> "c1", metadata |-> "m1"] >>

\* the loop of run r has been entered
InLoop(r) == inv[r].pc = "loop" \/ Calls(r, "tensor") > 0

WithoutLast(s) == SubSeq(s, 1, Len(s) - 1)

\* C20 as stated: at every point of the loop of a run, whatever the number
\* of decode steps made, the windows submitted to the model concatenate to
\* the token sequence without its last element, and the generated-token
\* counter equals the number of forward calls and the length of the token
\* sequence minus the length of the prompt.
C20_AsStated ==
    \A r \in Runs :
        InLoop(r)
            => /\ Flatten(Windows(r)) = WithoutLast(inv[r].tokens)
               /\ inv[r].generated_tokens = Calls(r, "forward")
               /\ inv[r].generated_tokens =
                      Len(inv[r].tokens) - Len(PromptTokens(r))

\* C20: the generated-token counter always equals the length of the token
\* sequence minus the length of the prompt; before the first forward call no
\* window has been submitted; once a step has pushed its token, the windows
\* concatenate to the token sequence without its last element and the
\* counter equals the number of forward calls; a step that an error ended
\* after its forward call leaves the windows concatenating to the whole
\* sequence and one forward call more than the counter. The decode state of
\* the run holds the windows of the forward calls that succeeded.
C20_IncrementalFeed ==
    \A r \in Runs :
        InLoop(r)
            => LET forwards == Calls(r, "forward")
                   generated == inv[r].generated_tokens
               IN /\ generated = Len(inv[r].tokens) - Len(PromptTokens(r))
                  /\ generated = Len(Sampled(r))
                  /\ forwards \in {generated, generated + 1}
                  /\ forwards = 0 => Windows(r) = <<>>
                  /\ (forwards > 0 /\ forwards = generated)
                         => Flatten(Windows(r)) = WithoutLast(inv[r].tokens)
                  /\ forwards = generated + 1
                         => /\ Flatten(Windows(r)) = inv[r].tokens
                            /\ Done(r) /\ inv[r].result.kind = "err"
                  /\ kv[inv[r].model] = Fed(r)

C20_Witness ==
    \E r \in Runs :
        /\ inv[r].pc = "loop"
        /\ Len(PromptTokens(r)) = 2
        /\ Calls(r, "forward") = 2
        /\ Len(inv[r].tokens) = 4
        /\ Windows(r) = << PromptTokens(r), << inv[r].tokens[3] >> >>

====
